---------------------------- MODULE Spec2Model ----------------------------
(***************************************************************************)
(* Model of the python/ helpers of the dotfiles repository:                *)
(*   bashdict.py     bash_to_dict                                          *)
(*   openai_util.py  get_openai_env, clean_openai_env,                     *)
(*                   openai_config_from_bash, get_completion_cli,          *)
(*                   get_embedding_cli                                     *)
(*   openai_api.py   openai_params_from_config, OpenAIRESTEndpoint,        *)
(*                   AzureOpenAIEndpoint                                   *)
(*                                                                         *)
(* A Python str is a sequence of one-character strings, so that strip,     *)
(* split, startswith, join and + are computed and not assumed.  A Python   *)
(* value stored in a dict is tagged with its type (str, list, None).       *)
(***************************************************************************)
EXTENDS Integers, Sequences, FiniteSets, TLC

VARIABLES
  script,   \* bashdict.py: the lines of the file being read
  lineno,   \* bashdict.py: number of lines the for loop has consumed
  config,   \* bashdict.py:12 the dict being built
  unset,    \* bashdict.py:13 the list of unset keys
  pc,       \* bashdict.py: "loop", "done" (returned) or "error" (raised)
  result,   \* bashdict.py:29 the returned dict (NoResult before the return)
  c_config, \* the caller's dict passed as `config` to get_completion_cli / get_embedding_cli
  c_kwargs, \* the caller's keyword overrides of those calls
  c_params, \* the caller's dict passed as `params` to openai_params_from_config
  c_envs,   \* the dict passed as `config` to openai_params_from_config
  entry,    \* which entry point the caller drives in this run
  calls,    \* the calls made so far: function, arguments as passed, outcome
  lib,      \* the openai module's globals api_base and api_version
  ep_args,  \* the arguments of the endpoint construction attempted, or None
  ep,       \* the endpoint object constructed, or None
  ep_err,   \* the exception the construction raised, or ""
  gets,     \* the method calls made on ep: method, exception or "", value
  environ,  \* os.environ: variable name -> value
  scanned,  \* the dict the last get_openai_env() returned, or None
  env_op    \* the operation the caller ran last

parseVars == <<script, lineno, config, unset, pc, result>>
resolveVars == <<c_config, c_kwargs, c_params, c_envs, entry, calls>>
endpointVars == <<lib, ep_args, ep, ep_err, gets>>
envVars == <<environ, scanned, env_op>>
vars == <<parseVars, resolveVars, endpointVars, envVars>>

----------------------------------------------------------------------------
(* Python values *)

Str(s) == [kind |-> "str", val |-> s]
List(l) == [kind |-> "list", val |-> l]
None == [kind |-> "none", val |-> <<>>]
NoResult == [kind |-> "noresult", val |-> <<>>]
\* a file: its lines
File(lines) == [kind |-> "file", val |-> lines]

\* a dict: its items as a function from the keys
Dict(f) == [kind |-> "dict", val |-> f]
EmptyDict == Dict(<<>>)

\* the keys of a dict, and d[k]
Keys(d) == DOMAIN d.val
Get(d, k) == d.val[k]

\* d[k] = v on a dict
DictSet(d, k, v) == Dict([x \in Keys(d) \cup {k} |-> IF x = k THEN v ELSE Get(d, x)])

\* del d[k]
DictDel(d, k) == Dict([x \in Keys(d) \ {k} |-> Get(d, x)])

\* d.update(e)
DictUpdate(d, e) ==
  Dict([x \in Keys(d) \cup Keys(e) |-> IF x \in Keys(e) THEN Get(e, x) ELSE Get(d, x)])

----------------------------------------------------------------------------
(* Python str methods used by the sources *)

IsSpace(c) == c \in {" ", "\t"}

RECURSIVE lstrip(_)
lstrip(s) == IF s # <<>> /\ IsSpace(Head(s)) THEN lstrip(Tail(s)) ELSE s

RECURSIVE rstrip(_)
rstrip(s) == IF s # <<>> /\ IsSpace(s[Len(s)]) THEN rstrip(SubSeq(s, 1, Len(s) - 1)) ELSE s

\* str.strip()
strip(s) == rstrip(lstrip(s))

\* str.startswith(p)
startswith(s, p) == Len(s) >= Len(p) /\ SubSeq(s, 1, Len(p)) = p

\* index of the first character of s satisfying none of the others before it, or 0
FirstIndex(s, c) ==
  IF \E i \in 1..Len(s) : s[i] = c
  THEN CHOOSE i \in 1..Len(s) : s[i] = c /\ \A j \in 1..(i - 1) : s[j] # c
  ELSE 0

FirstSpace(s) ==
  IF \E i \in 1..Len(s) : IsSpace(s[i])
  THEN CHOOSE i \in 1..Len(s) : IsSpace(s[i]) /\ \A j \in 1..(i - 1) : ~IsSpace(s[j])
  ELSE 0

\* str.split(c): the pieces between the occurrences of c, at least one piece
RECURSIVE split_on(_, _)
split_on(s, c) ==
  LET i == FirstIndex(s, c) IN
  IF i = 0 THEN <<s>>
  ELSE <<SubSeq(s, 1, i - 1)>> \o split_on(SubSeq(s, i + 1, Len(s)), c)

\* str.split(): the whitespace-delimited tokens, none of them empty
RECURSIVE split_ws(_)
split_ws(s) ==
  LET t == lstrip(s)
      j == FirstSpace(t) IN
  IF t = <<>> THEN <<>>
  ELSE IF j = 0 THEN <<t>>
  ELSE <<SubSeq(t, 1, j - 1)>> \o split_ws(SubSeq(t, j, Len(t)))

\* c.join(parts)
RECURSIVE join(_, _)
join(parts, c) ==
  IF parts = <<>> THEN <<>>
  ELSE IF Len(parts) = 1 THEN parts[1]
  ELSE parts[1] \o <<c>> \o join(Tail(parts), c)

----------------------------------------------------------------------------
(* Literals *)

EXPORT == <<"e","x","p","o","r","t">>
UNSET == <<"u","n","s","e","t">>
HASH == <<"#">>
OPENAI_API_KEY == <<"O","P","E","N","A","I","_","A","P","I","_","K","E","Y">>
OPENAI_API_BASE == <<"O","P","E","N","A","I","_","A","P","I","_","B","A","S","E">>
OPENAI_API_TYPE == <<"O","P","E","N","A","I","_","A","P","I","_","T","Y","P","E">>
OPENAI_API_VERSION == <<"O","P","E","N","A","I","_","A","P","I","_","V","E","R","S","I","O","N">>
OPENAI_ORGANIZATION == <<"O","P","E","N","A","I","_","O","R","G","A","N","I","Z","A","T","I","O","N">>
api_key == <<"a","p","i","_","k","e","y">>
api_base == <<"a","p","i","_","b","a","s","e">>
api_type == <<"a","p","i","_","t","y","p","e">>
api_version == <<"a","p","i","_","v","e","r","s","i","o","n">>
organization == <<"o","r","g","a","n","i","z","a","t","i","o","n">>
DEBUG == <<"d","e","b","u","g">>
ContentType == <<"C","o","n","t","e","n","t","-","T","y","p","e">>
ApplicationJson == <<"a","p","p","l","i","c","a","t","i","o","n","/","j","s","o","n">>
Authorization == <<"A","u","t","h","o","r","i","z","a","t","i","o","n">>
Bearer == <<"B","e","a","r","e","r"," ">>
OpenAIOrganization == <<"O","p","e","n","A","I","-","O","r","g","a","n","i","z","a","t","i","o","n">>
ApiKeyHeader == <<"a","p","i","-","k","e","y">>
Deployments == <<"/","o","p","e","n","a","i","/","d","e","p","l","o","y","m","e","n","t","s","/">>
ApiVersionQuery == <<"?","a","p","i","-","v","e","r","s","i","o","n","=">>
Completions == <<"c","o","m","p","l","e","t","i","o","n","s">>
ChatCompletions == <<"c","h","a","t","/","c","o","m","p","l","e","t","i","o","n","s">>
Embeddings == <<"e","m","b","e","d","d","i","n","g","s">>
SLASH == <<"/">>
OPENAI_PREFIX == <<"O","P","E","N","A","I","_">>

----------------------------------------------------------------------------
(* bashdict.py: bash_to_dict *)

\* bashdict.py:20-24, the export branch on the stripped line
export_branch(st, line) ==
  LET parts == split_on(line, "=")
      toks == split_ws(parts[1]) IN
  IF Len(toks) < 2 THEN [st EXCEPT !.error = "IndexError"]
  ELSE [st EXCEPT !.config = DictSet(st.config, toks[2], Str(join(Tail(parts), "=")))]

\* the unset branch as setenv.py:24-27 has it: the key is dropped from the mapping too
unset_branch_pops(st, line) ==
  LET toks == split_ws(line) IN
  IF Len(toks) < 2 THEN [st EXCEPT !.error = "IndexError"]
  ELSE [st EXCEPT !.unset = Append(st.unset, toks[2]),
                  !.config = DictDel(st.config, toks[2])]

\* bashdict.py:25-27, the unset branch on the stripped line
unset_branch(st, line) ==
  LET toks == split_ws(line) IN
  IF Len(toks) < 2 THEN [st EXCEPT !.error = "IndexError"]
  ELSE [st EXCEPT !.unset = Append(st.unset, toks[2])]

\* which branch of bashdict.py:18-25 a raw line takes
branch_of(raw) ==
  LET line == strip(raw) IN
  IF startswith(line, HASH) THEN "comment"
  ELSE IF startswith(line, EXPORT) THEN "export"
  ELSE IF startswith(line, UNSET) THEN "unset"
  ELSE "ignored"

\* bashdict.py:16-27, one iteration of the for loop
loop_body(st, raw) ==
  LET line == strip(raw)
      b == branch_of(raw) IN
  IF b = "export" THEN export_branch(st, line)
  ELSE IF b = "unset" THEN unset_branch(st, line)
  ELSE st

\* bashdict.py:28-29
finish(st) == DictSet(st.config, UNSET, List(st.unset))

RECURSIVE run_loop(_, _)
run_loop(st, lines) ==
  IF lines = <<>> \/ st.error # "" THEN st
  ELSE run_loop(loop_body(st, Head(lines)), Tail(lines))

InitialLoopState == [config |-> EmptyDict, unset |-> <<>>, error |-> ""]

\* bashdict.py:6-29 as a function of the file's lines: whether the call raises
bash_raises(lines) == run_loop(InitialLoopState, lines).error # ""

\* bashdict.py:6-29 as a function of the file's lines: the dict returned when
\* the call does not raise
bash_to_dict(lines) == finish(run_loop(InitialLoopState, lines))

----------------------------------------------------------------------------
(* openai_util.py and openai_api.py: configuration resolution *)

\* Python truth value of a dict-or-None argument (`if config:`)
Truthy(d) == d # None /\ d # EmptyDict

\* openai_util.py:51-57, the translation table in its insertion order
config_mapping == <<
  [config_key |-> OPENAI_API_KEY, param_key |-> api_key],
  [config_key |-> OPENAI_API_BASE, param_key |-> api_base],
  [config_key |-> OPENAI_API_TYPE, param_key |-> api_type],
  [config_key |-> OPENAI_API_VERSION, param_key |-> api_version],
  [config_key |-> OPENAI_ORGANIZATION, param_key |-> organization] >>

\* openai_util.py:58-62, the loop over config_mapping.items() from entry i on
RECURSIVE copy_mapped(_, _, _)
copy_mapped(envs, params, i) ==
  IF i > Len(config_mapping) THEN params
  ELSE LET m == config_mapping[i] IN
       copy_mapped(envs,
                   IF m.config_key \in Keys(envs)
                   THEN DictSet(params, m.param_key, Get(envs, m.config_key))
                   ELSE params,
                   i + 1)

\* the translation with every other key of envs copied under its own name
openai_config_from_bash_passthrough(lines) ==
  LET envs == bash_to_dict(lines)
      others == Keys(envs) \ {config_mapping[i].config_key : i \in 1..Len(config_mapping)} IN
  DictUpdate(copy_mapped(envs, EmptyDict, 1), Dict([K \in others \ {UNSET} |-> Get(envs, K)]))

\* openai_util.py:49-63 on a file whose lines bash_to_dict reads without raising
openai_config_from_bash(lines) == copy_mapped(bash_to_dict(lines), EmptyDict, 1)

\* the merge with the operands the other way round: config's values win
cli_merge_config_wins(cfg, kwargs) ==
  LET merged == IF Truthy(cfg) THEN DictUpdate(kwargs, cfg) ELSE kwargs
      dbg == DEBUG \in Keys(merged)
      final == IF dbg THEN DictDel(merged, DEBUG) ELSE merged IN
  [sent |-> final,
   printed |-> dbg,
   obj_after |-> IF Truthy(cfg) THEN final ELSE cfg]

\* openai_util.py:70-76 and 90-96: what the body does to `config` before the
\* transport is called.  obj_after is the dict object the caller passed as
\* `config` as the call leaves it; sent is what is handed on as **config.
cli_merge(cfg, kwargs) ==
  LET merged == IF Truthy(cfg) THEN DictUpdate(cfg, kwargs) ELSE kwargs
      dbg == DEBUG \in Keys(merged)
      final == IF dbg THEN DictDel(merged, DEBUG) ELSE merged IN
  [sent |-> final,
   printed |-> dbg,
   obj_after |-> IF Truthy(cfg) THEN final ELSE cfg]

\* openai_api.py:17-24
default_params(params) ==
  IF ~Truthy(params)
  THEN Dict([k \in {api_key, api_base, api_type, api_version, organization} |-> None])
  ELSE params

\* one `if 'OPENAI_X' in config: params['x'] = config['OPENAI_X']` of openai_api.py:26-35
copy_if_present(params, cfg, config_key, param_key) ==
  IF config_key \in Keys(cfg) THEN DictSet(params, param_key, Get(cfg, config_key)) ELSE params

\* openai_api.py:15-36.  returned is the dict returned; obj_after is the dict
\* object the caller passed as `params` as the call leaves it.
openai_params_from_config(params, cfg) ==
  LET p0 == default_params(params)
      p1 == copy_if_present(p0, cfg, OPENAI_API_KEY, api_key)
      p2 == copy_if_present(p1, cfg, OPENAI_API_BASE, api_base)
      p3 == copy_if_present(p2, cfg, OPENAI_API_TYPE, api_type)
      p4 == copy_if_present(p3, cfg, OPENAI_API_VERSION, api_version)
      p5 == copy_if_present(p4, cfg, OPENAI_ORGANIZATION, organization)
      out == IF Truthy(cfg) THEN p5 ELSE p0 IN
  [returned |-> out,
   obj_after |-> IF Truthy(params) THEN out ELSE params]

----------------------------------------------------------------------------
(* openai_util.py: the process environment *)

\* the scan testing for OPENAI without the underscore
get_openai_env_short_prefix(env) ==
  Dict([x \in {n \in Keys(env) : startswith(n, SubSeq(OPENAI_PREFIX, 1, 6))} |-> Get(env, x)])

\* openai_util.py:33-39 on os.environ = env: the dict returned
get_openai_env(env) ==
  Dict([x \in {n \in Keys(env) : startswith(n, OPENAI_PREFIX)} |-> Get(env, x)])

\* openai_util.py:45-46, `del os.environ[x]` for every x of keys
RECURSIVE delete_keys(_, _)
delete_keys(env, keys) ==
  IF keys = {} THEN env
  ELSE LET x == CHOOSE k \in keys : TRUE IN delete_keys(DictDel(env, x), keys \ {x})

\* openai_util.py:42-46 on os.environ = env: os.environ afterwards
clean_openai_env(env) == delete_keys(env, Keys(get_openai_env(env)))

----------------------------------------------------------------------------
(* openai_api.py: the endpoint classes *)

\* the abstract methods a class inherits (openai_api.py:46-54 and 61-89)
DeclaredAbstract(cls) ==
  IF cls = "OpenAIRESTEndpoint"
  THEN {"get_config", "get_response", "get_headers", "get_completion_url",
        "get_chat_completion_url", "get_embedding_url", "get_completion_request",
        "get_embedding_request"}
  ELSE {"get_config", "get_response"}

\* the methods the class body defines (openai_api.py:158-185 and 223-250)
DefinedMethods(cls) ==
  {"get_config", "get_headers", "get_completion_url", "get_chat_completion_url",
   "get_embedding_url", "get_completion_request", "get_embedding_request"}

\* the abstract methods left undefined: ABCMeta refuses to instantiate a class
\* that has any
RemainingAbstract(cls) == DeclaredAbstract(cls) \ DefinedMethods(cls)

\* the names the module binds at its top level (openai_api.py:9-15, 39, 57, 132, 188)
ModuleGlobals ==
  {"ABC", "abstractmethod", "json", "requests", "openai", "os",
   "openai_params_from_config", "APIEndpoint", "RESTAPIEndpoint",
   "OpenAIRESTEndpoint", "AzureOpenAIEndpoint"}

\* an instance: its class and its attribute dict
Object(cls, attrs) == [kind |-> "object", val |-> [cls |-> cls, attrs |-> attrs]]

\* the arguments of a construction
Args(cls, completed, name, cfg) ==
  [kind |-> "args", val |-> [cls |-> cls, completed |-> completed, name |-> name, config |-> cfg]]

Raised(e) == [err |-> e, attrs |-> <<>>]
Built(attrs) == [err |-> "", attrs |-> attrs]

\* `assert config[k] is not None`: the exception it raises, or ""
assert_present(cfg, k) ==
  IF k \notin Keys(cfg) THEN "KeyError"
  ELSE IF Get(cfg, k) = None THEN "AssertionError"
  ELSE ""

\* a + b on two values: str concatenation, TypeError with a None operand
Plus(a, b) == IF a.kind = "str" /\ b.kind = "str" THEN Str(a.val \o b.val) ELSE None

\* openai_api.py:133-156, OpenAIRESTEndpoint.__init__(model, config)
OpenAIRESTEndpoint_init(model, cfg, g) ==
  IF cfg = None THEN Raised("AssertionError")
  ELSE IF assert_present(cfg, api_key) # "" THEN Raised(assert_present(cfg, api_key))
  ELSE IF assert_present(cfg, api_type) # "" THEN Raised(assert_present(cfg, api_type))
  ELSE IF model = None THEN Raised("AssertionError")
  ELSE IF "key" \notin ModuleGlobals \cup {"self", "model", "config"}
       THEN Raised("NameError")       \* line 148: f"Bearer {key}"
  ELSE IF organization \notin Keys(cfg) THEN Raised("KeyError")
  ELSE IF Plus(g.api_base, g.api_version) = None THEN Raised("TypeError")
  ELSE LET base == Plus(g.api_base, g.api_version)
           hdr0 == Dict((ContentType :> Str(ApplicationJson))
                          @@ (Authorization :> Str(Bearer \o Get(cfg, api_key).val)))
           hdr == IF Get(cfg, organization) # None
                  THEN DictSet(hdr0, OpenAIOrganization, Get(cfg, organization))
                  ELSE hdr0 IN
       Built([a \in {"_config", "_headers", "_model", "_completion_url",
                     "_chat_completion_url", "_embedding_url"} |->
                CASE a = "_config" -> cfg
                  [] a = "_headers" -> hdr
                  [] a = "_model" -> model
                  [] a = "_completion_url" -> Plus(base, Str(SLASH \o Completions))
                  [] a = "_chat_completion_url" -> Plus(base, Str(SLASH \o ChatCompletions))
                  [] a = "_embedding_url" -> Plus(base, Str(SLASH \o Embeddings))])

\* openai_api.py:210-221, one of the three f-strings
azure_url(cfg, deployment_name, path) ==
  Str(Get(cfg, api_base).val \o Deployments \o deployment_name.val \o SLASH
        \o path \o ApiVersionQuery \o Get(cfg, api_version).val)

\* openai_api.py:189-221, AzureOpenAIEndpoint.__init__(deployment_name, config)
AzureOpenAIEndpoint_init(deployment_name, cfg) ==
  IF cfg = None THEN Raised("AssertionError")
  ELSE IF assert_present(cfg, api_key) # "" THEN Raised(assert_present(cfg, api_key))
  ELSE IF assert_present(cfg, api_type) # "" THEN Raised(assert_present(cfg, api_type))
  ELSE IF assert_present(cfg, api_version) # "" THEN Raised(assert_present(cfg, api_version))
  ELSE IF assert_present(cfg, api_base) # "" THEN Raised(assert_present(cfg, api_base))
  ELSE IF deployment_name = None THEN Raised("AssertionError")
  ELSE Built([a \in {"_config", "_headers", "_deployment_name", "_completion_url",
                     "_embedding_url", "get_chat_completion_url"} |->
                CASE a = "_config" -> cfg
                  [] a = "_headers" -> Dict((ContentType :> Str(ApplicationJson))
                                              @@ (ApiKeyHeader :> Get(cfg, api_key)))
                  [] a = "_deployment_name" -> deployment_name
                  [] a = "_completion_url" -> azure_url(cfg, deployment_name, Completions)
                  [] a = "_embedding_url" -> azure_url(cfg, deployment_name, Embeddings)
                  [] a = "get_chat_completion_url" ->
                       azure_url(cfg, deployment_name, ChatCompletions)])

\* cls(name, config): object.__new__ refuses a class with abstract methods
\* left, then __init__ runs.  completed: the class instantiated is a subclass
\* that defines the methods RemainingAbstract(cls) names and nothing else.
instantiate(cls, completed, name, cfg, g) ==
  IF ~completed /\ RemainingAbstract(cls) # {} THEN Raised("TypeError")
  ELSE IF cls = "OpenAIRESTEndpoint" THEN OpenAIRESTEndpoint_init(name, cfg, g)
  ELSE AzureOpenAIEndpoint_init(name, cfg)

\* the attribute a getter returns (openai_api.py:158-171 and 223-236)
getter_attribute(method) ==
  CASE method = "get_config" -> "_config"
    [] method = "get_headers" -> "_headers"
    [] method = "get_completion_url" -> "_completion_url"
    [] method = "get_chat_completion_url" -> "_chat_completion_url"
    [] method = "get_embedding_url" -> "_embedding_url"

\* obj.method(): an instance attribute of that name is found before the
\* class's function and is called instead; a str is not callable
invoke(obj, method) ==
  LET attrs == obj.val.attrs IN
  IF method \in DOMAIN attrs THEN [method |-> method, err |-> "TypeError", val |-> None]
  ELSE IF getter_attribute(method) \notin DOMAIN attrs
       THEN [method |-> method, err |-> "AttributeError", val |-> None]
  ELSE [method |-> method, err |-> "", val |-> attrs[getter_attribute(method)]]

----------------------------------------------------------------------------
(* Files bash_to_dict is run on *)

SP == <<" ">>
EQ == <<"=">>
KeyA == <<"A">>
KeyB == <<"B">>
KeyFOO == <<"F","O","O">>

ParseLines == {
  EXPORT \o SP \o KeyA \o EQ \o <<"1">>,                 \* export A=1
  EXPORT \o SP \o KeyA \o EQ \o <<"2">>,                 \* export A=2
  SP \o EXPORT \o SP \o SP \o KeyB \o EQ \o <<"x","=","y"," ">>,  \* " export  B=x=y "
  EXPORT \o SP \o KeyB \o EQ,                            \* export B=
  EXPORT \o SP \o UNSET \o EQ \o <<"9">>,                \* export unset=9
  EXPORT \o SP \o KeyFOO,                                \* export FOO
  EXPORT,                                                \* export
  UNSET \o SP \o KeyA,                                   \* unset A
  UNSET \o SP \o KeyB \o SP,                             \* "unset B "
  UNSET,                                                 \* unset
  HASH \o SP \o UNSET \o SP \o KeyA,                     \* # unset A
  <<"l","s">>,                                           \* ls
  <<>>                                                   \* blank line
}

MaxLines == 3

RECURSIVE SeqsUpTo(_, _)
SeqsUpTo(S, n) ==
  IF n = 0 THEN {<<>>}
  ELSE LET shorter == SeqsUpTo(S, n - 1) IN
       shorter \cup {Append(q, x) : q \in {r \in shorter : Len(r) = n - 1}, x \in S}

\* no bash_to_dict loop in progress
ParseIdle ==
  /\ lineno = 0
  /\ config = EmptyDict
  /\ unset = <<>>
  /\ pc = "idle"
  /\ result = NoResult

\* no resolution call made, no caller objects
ResolveIdle ==
  /\ c_config = None
  /\ c_kwargs = EmptyDict
  /\ c_params = None
  /\ c_envs = None
  /\ calls = <<>>

\* no endpoint construction attempted
EndpointIdle ==
  /\ lib = [api_base |-> None, api_version |-> None]
  /\ ep_args = None
  /\ ep = None
  /\ ep_err = ""
  /\ gets = <<>>

\* an empty environment nobody looks at
EnvIdle ==
  /\ environ = EmptyDict
  /\ scanned = None
  /\ env_op = "none"

\* bashdict.py:12-15: the file is open, nothing read yet
InitParse ==
  /\ script \in SeqsUpTo(ParseLines, MaxLines)
  /\ lineno = 0
  /\ config = EmptyDict
  /\ unset = <<>>
  /\ pc = "loop"
  /\ result = NoResult
  /\ entry = "bash_to_dict"
  /\ ResolveIdle
  /\ EndpointIdle
  /\ EnvIdle

\* the loop's local state as loop_body takes it
LoopState == [config |-> config, unset |-> unset, error |-> ""]

\* bashdict.py:16-27: the for loop reads the next line and runs the body on it
ReadLine ==
  /\ pc = "loop"
  /\ lineno < Len(script)
  /\ LET st == loop_body(LoopState, script[lineno + 1]) IN
     /\ config' = st.config
     /\ unset' = st.unset
     /\ pc' = IF st.error # "" THEN "error" ELSE "loop"
  /\ lineno' = lineno + 1
  /\ UNCHANGED <<script, result, resolveVars, endpointVars, envVars>>

NextIs(b) == lineno < Len(script) /\ branch_of(script[lineno + 1]) = b

\* bashdict.py:18-19
Comment ==
  /\ NextIs("comment")
  /\ ReadLine

\* bashdict.py:20-24
ExportLine ==
  /\ NextIs("export")
  /\ ReadLine

\* bashdict.py:25-27
UnsetLine ==
  /\ NextIs("unset")
  /\ ReadLine

\* bashdict.py:16-17, a line no branch takes
IgnoredLine ==
  /\ NextIs("ignored")
  /\ ReadLine

\* bashdict.py:28-29: the file is exhausted
Return ==
  /\ pc = "loop"
  /\ lineno = Len(script)
  /\ config' = finish(LoopState)
  /\ result' = config'
  /\ pc' = "done"
  /\ UNCHANGED <<script, lineno, unset, resolveVars, endpointVars, envVars>>

NextParse == Comment \/ ExportLine \/ UnsetLine \/ IgnoredLine \/ Return

SpecParse == InitParse /\ [][NextParse]_vars

----------------------------------------------------------------------------
(* Callers of the resolution functions *)

MaxCalls == 2
MaxConfigLines == 2

ValC == Str(<<"c">>)   \* a value held by the script-derived config
ValO == Str(<<"o">>)   \* a value given as a call-site override
ValP == Str(<<"p">>)   \* a value held by a passed-in params dict

CanonicalKeys == {api_key, api_base, api_type, api_version, organization}
RecognizedKeys == {OPENAI_API_KEY, OPENAI_API_BASE, OPENAI_API_TYPE,
                   OPENAI_API_VERSION, OPENAI_ORGANIZATION}

\* every dict with keys among K, all values v
DictsOver(K, v) == {Dict(f) : f \in UNION {[S -> {v}] : S \in SUBSET K}}

ConfigLines == {
  EXPORT \o SP \o OPENAI_API_KEY \o EQ \o <<"k">>,
  EXPORT \o SP \o OPENAI_API_BASE \o EQ \o <<"b">>,
  EXPORT \o SP \o OPENAI_API_TYPE \o EQ \o <<"t">>,
  EXPORT \o SP \o OPENAI_API_VERSION \o EQ \o <<"v">>,
  EXPORT \o SP \o OPENAI_ORGANIZATION \o EQ \o <<"o">>,
  EXPORT \o SP \o KeyA \o EQ \o <<"1">>,
  UNSET \o SP \o OPENAI_ORGANIZATION
}

\* the caller holds its arguments; nothing has been called
InitResolve ==
  /\ ParseIdle
  /\ EndpointIdle
  /\ EnvIdle
  /\ calls = <<>>
  /\ \/ /\ entry = "cli"
        /\ c_config \in {None} \cup DictsOver(CanonicalKeys \cup {DEBUG}, ValC)
        /\ c_kwargs \in DictsOver(CanonicalKeys \cup {DEBUG}, ValO)
        /\ c_params = None
        /\ c_envs = None
        /\ script = <<>>
     \/ /\ entry = "params"
        /\ c_params \in {None} \cup DictsOver(CanonicalKeys, ValP)
        /\ c_envs \in {None} \cup DictsOver(RecognizedKeys \cup {KeyA}, ValC)
        /\ c_config = None
        /\ c_kwargs = EmptyDict
        /\ script = <<>>
     \/ /\ entry = "bash"
        /\ script \in SeqsUpTo(ConfigLines, MaxConfigLines)
        /\ c_config = None
        /\ c_kwargs = EmptyDict
        /\ c_params = None
        /\ c_envs = None

\* a call of fn on (arg1, arg2): what it handed on or returned, whether it
\* printed, and the object passed as arg1 as the call left it
Call(fn, arg1, arg2, out, printed, after) ==
  [fn |-> fn, arg1 |-> arg1, arg2 |-> arg2, out |-> out, printed |-> printed,
   arg1_after |-> after]

\* openai_util.py:66-83: get_completion_cli(prompt, c_config, **c_kwargs)
GetCompletionCli ==
  /\ entry = "cli"
  /\ Len(calls) < MaxCalls
  /\ LET r == cli_merge(c_config, c_kwargs) IN
     /\ c_config' = r.obj_after
     /\ calls' = Append(calls, Call("get_completion_cli", c_config, c_kwargs,
                                    r.sent, r.printed, r.obj_after))
  /\ UNCHANGED <<c_kwargs, c_params, c_envs, entry, parseVars, endpointVars, envVars>>

\* openai_util.py:86-103: get_embedding_cli(input, c_config, **c_kwargs)
GetEmbeddingCli ==
  /\ entry = "cli"
  /\ Len(calls) < MaxCalls
  /\ LET r == cli_merge(c_config, c_kwargs) IN
     /\ c_config' = r.obj_after
     /\ calls' = Append(calls, Call("get_embedding_cli", c_config, c_kwargs,
                                    r.sent, r.printed, r.obj_after))
  /\ UNCHANGED <<c_kwargs, c_params, c_envs, entry, parseVars, endpointVars, envVars>>

\* openai_api.py:15-36: openai_params_from_config(c_params, c_envs)
ParamsFromConfig ==
  /\ entry = "params"
  /\ Len(calls) < MaxCalls
  /\ LET r == openai_params_from_config(c_params, c_envs) IN
     /\ c_params' = r.obj_after
     /\ calls' = Append(calls, Call("openai_params_from_config", c_params, c_envs,
                                    r.returned, FALSE, r.obj_after))
  /\ UNCHANGED <<c_config, c_kwargs, c_envs, entry, parseVars, endpointVars, envVars>>

\* openai_util.py:49-63: openai_config_from_bash(script); a raise of
\* bash_to_dict passes through
ConfigFromBash ==
  /\ entry = "bash"
  /\ Len(calls) < MaxCalls
  /\ calls' = Append(calls, Call("openai_config_from_bash", File(script), None,
                                 IF bash_raises(script) THEN NoResult
                                 ELSE openai_config_from_bash(script),
                                 FALSE, File(script)))
  /\ UNCHANGED <<c_config, c_kwargs, c_params, c_envs, entry, parseVars, endpointVars, envVars>>

NextResolve == GetCompletionCli \/ GetEmbeddingCli \/ ParamsFromConfig \/ ConfigFromBash

SpecResolve == InitResolve /\ [][NextResolve]_vars

----------------------------------------------------------------------------
(* Construction and use of an endpoint *)

MaxGets == 2

Getters == {"get_completion_url", "get_chat_completion_url", "get_embedding_url",
            "get_headers"}

\* a sample value for each canonical key
SampleValue(k) ==
  IF k = api_key THEN Str(<<"s","k">>)
  ELSE IF k = api_base THEN Str(<<"h",":","/","/","g","w">>)
  ELSE IF k = api_type THEN Str(<<"a","z">>)
  ELSE IF k = api_version THEN Str(<<"/","v","1">>)
  ELSE Str(<<"o","r","g">>)

\* every params dict: each canonical key absent, None or its sample value
ParamDicts ==
  UNION {{Dict([k \in S |-> IF k \in N THEN None ELSE SampleValue(k)]) : N \in SUBSET S}
           : S \in SUBSET CanonicalKeys}

NameValues == {None, Str(<<"d","e","p">>)}

\* the openai module as imported: api_base is set, api_version is None unless
\* configured
InitEndpoint ==
  /\ ParseIdle
  /\ script = <<>>
  /\ entry = "endpoint"
  /\ ResolveIdle
  /\ EnvIdle
  /\ lib \in {[api_base |-> Str(<<"l","i","b">>), api_version |-> None],
              [api_base |-> Str(<<"l","i","b">>), api_version |-> Str(<<"/","v","0">>)]}
  /\ ep_args = None
  /\ ep = None
  /\ ep_err = ""
  /\ gets = <<>>

\* cls(name, cfg), directly or through a subclass completing the abstract methods
Construct(cls, completed, name, cfg) ==
  /\ ep_args' = Args(cls, completed, name, cfg)
  /\ LET r == instantiate(cls, completed, name, cfg, lib) IN
     /\ ep_err' = r.err
     /\ ep' = IF r.err = "" THEN Object(cls, r.attrs) ELSE None
  /\ UNCHANGED <<lib, gets, parseVars, resolveVars, envVars>>

\* openai_api.py:132-156
ConstructOpenAI ==
  /\ ep_args = None
  /\ \E completed \in BOOLEAN, name \in NameValues, cfg \in {None} \cup ParamDicts :
       Construct("OpenAIRESTEndpoint", completed, name, cfg)

\* openai_api.py:188-221
ConstructAzure ==
  /\ ep_args = None
  /\ \E completed \in BOOLEAN, name \in NameValues, cfg \in {None} \cup ParamDicts :
       Construct("AzureOpenAIEndpoint", completed, name, cfg)

\* openai_api.py:158-171 and 223-236: ep.method()
CallGetter ==
  /\ ep # None
  /\ Len(gets) < MaxGets
  /\ \E method \in Getters : gets' = Append(gets, invoke(ep, method))
  /\ UNCHANGED <<lib, ep_args, ep, ep_err, parseVars, resolveVars, envVars>>

NextEndpoint == ConstructOpenAI \/ ConstructAzure \/ CallGetter

SpecEndpoint == InitEndpoint /\ [][NextEndpoint]_vars

----------------------------------------------------------------------------
(* A caller scanning and clearing the environment between parses and resolutions *)

ENV_LOWER == <<"o","p","e","n","a","i","_","k">>
ENV_BARE == <<"O","P","E","N","A","I">>
ENV_INNER == <<"M","Y","_","O","P","E","N","A","I","_">>
ENV_HOME == <<"H","O","M","E">>

EnvNames == {OPENAI_API_KEY, OPENAI_ORGANIZATION, ENV_LOWER, ENV_BARE, ENV_INNER, ENV_HOME}

EnvFiles == { <<>>,
              << EXPORT \o SP \o OPENAI_API_KEY \o EQ \o <<"k">> >>,
              << UNSET \o SP \o OPENAI_API_KEY >>,
              << EXPORT >> }

\* the process starts with any of the variables set
InitEnv ==
  /\ ParseIdle
  /\ script = <<>>
  /\ entry = "env"
  /\ ResolveIdle
  /\ EndpointIdle
  /\ environ \in {Dict(f) : f \in {g \in UNION {[S -> {Str(<<"1">>), Str(<<"2">>)}] : S \in SUBSET EnvNames} :
                                      \A n \in DOMAIN g : g[n] = Str(<<"2">>) => n = OPENAI_API_KEY}}
  /\ scanned = None
  /\ env_op = "none"

\* openai_util.py:33-39
Scan ==
  /\ scanned' = get_openai_env(environ)
  /\ env_op' = "scan"
  /\ UNCHANGED <<environ, parseVars, resolveVars, endpointVars>>

\* openai_util.py:42-46
Clear ==
  /\ environ' = clean_openai_env(environ)
  /\ env_op' = "clear"
  /\ UNCHANGED <<scanned, parseVars, resolveVars, endpointVars>>

\* bashdict.py:6-29, a whole call on one of the files
Parse ==
  /\ \E f \in EnvFiles :
       /\ script' = f
       /\ result' = IF bash_raises(f) THEN NoResult ELSE bash_to_dict(f)
  /\ env_op' = "parse"
  /\ UNCHANGED <<lineno, config, unset, pc, environ, scanned, resolveVars, endpointVars>>

\* openai_api.py:15-36, params = openai_params_from_config(params, scanned)
Resolve ==
  /\ scanned # None
  /\ c_envs' = scanned
  /\ c_params' = openai_params_from_config(c_params, scanned).returned
  /\ env_op' = "resolve"
  /\ UNCHANGED <<c_config, c_kwargs, entry, calls, environ, scanned, parseVars, endpointVars>>

NextEnv == Scan \/ Clear \/ Parse \/ Resolve

SpecEnv == InitEnv /\ [][NextEnv]_vars

----------------------------------------------------------------------------
(* What the parser's contract says of a line, read off the line's text *)

\* the stripped line is `export`, whitespace, a key without whitespace or `=`, `=`, a value
WellFormedExport(raw) ==
  LET s == strip(raw)
      i == FirstIndex(s, "=")
      pre == SubSeq(s, Len(EXPORT) + 1, i - 1) IN
  /\ startswith(s, EXPORT)
  /\ i > Len(EXPORT) + 1
  /\ IsSpace(pre[1])
  /\ lstrip(pre) # <<>>
  /\ FirstSpace(lstrip(pre)) = 0

WrittenKey(raw) ==
  LET s == strip(raw) IN lstrip(SubSeq(s, Len(EXPORT) + 1, FirstIndex(s, "=") - 1))

\* the text after the first `=`
WrittenValue(raw) ==
  LET s == strip(raw) IN SubSeq(s, FirstIndex(s, "=") + 1, Len(s))

\* the stripped line begins with `export` and holds no `=`
ExportWithoutEq(raw) ==
  LET s == strip(raw) IN startswith(s, EXPORT) /\ FirstIndex(s, "=") = 0

\* the keys of the `unset K` lines, in the order of the lines
RECURSIVE UnsetKeysOf(_)
UnsetKeysOf(lines) ==
  IF lines = <<>> THEN <<>>
  ELSE LET s == strip(Head(lines))
           toks == split_ws(s) IN
       (IF startswith(s, UNSET) /\ Len(toks) >= 2 THEN <<toks[2]>> ELSE <<>>)
         \o UnsetKeysOf(Tail(lines))

\* the lines with every line of the unset branch taken out
WithoutUnsets(lines) == SelectSeq(lines, LAMBDA l : branch_of(l) # "unset")

Swap(lines, i) == [lines EXCEPT ![i] = lines[i + 1], ![i + 1] = lines[i]]

Consumed == SubSeq(script, 1, lineno)

----------------------------------------------------------------------------
(* Claims on bash_to_dict, checked under SpecParse *)

\* C1: for a file of well-formed `export K=V` lines only, the returned dict maps
\* every exported K to the text after the first `=` of the last `export K=` line,
\* and swapping two lines that export distinct keys leaves the returned pairs as
\* they are.  (Stated as the claim has it; the code breaks it for K = unset.)
C1_ExportsReproduced ==
  (pc = "done" /\ \A i \in 1..Len(script) : WellFormedExport(script[i])) =>
    /\ \A i \in 1..Len(script) :
         LET K == WrittenKey(script[i])
             last == CHOOSE j \in 1..Len(script) :
                       /\ WrittenKey(script[j]) = K
                       /\ \A m \in (j + 1)..Len(script) : WrittenKey(script[m]) # K
         IN K \in Keys(result) /\ Get(result, K) = Str(WrittenValue(script[last]))
    /\ \A i \in 1..(Len(script) - 1) :
         WrittenKey(script[i]) # WrittenKey(script[i + 1]) =>
           bash_to_dict(Swap(script, i)) = result

\* C2: the unset list is the keys of the `unset K` lines read so far, in file
\* order, whether or not K was exported; the exported values are those of the
\* same file without its unset lines; the returned dict carries the unset list
\* under `unset`.
C2_UnsetListIndependent ==
  /\ unset = UnsetKeysOf(Consumed)
  /\ pc = "loop" =>
       config = run_loop(InitialLoopState, WithoutUnsets(Consumed)).config
  /\ pc = "done" =>
       /\ Get(result, UNSET) = List(UnsetKeysOf(script))
       /\ \A K \in Keys(bash_to_dict(WithoutUnsets(script))) \ {UNSET} :
            K \in Keys(result) /\ Get(result, K) = Get(bash_to_dict(WithoutUnsets(script)), K)

\* C2 witness: `export A=1; export A=2; unset A` returned A -> "2" and unset [A]
C2_Witness ==
  /\ pc = "done"
  /\ script = << EXPORT \o SP \o KeyA \o EQ \o <<"1">>,
                 EXPORT \o SP \o KeyA \o EQ \o <<"2">>,
                 UNSET \o SP \o KeyA >>
  /\ Get(result, KeyA) = Str(<<"2">>)
  /\ Get(result, UNSET) = List(<<KeyA>>)

\* C3: once an `export` line without `=` has been read the call has failed:
\* nothing is returned and the key is not recorded.  (Stated as the claim has
\* it; the code records the key with the empty string.)
C3_ExportWithoutEqFails ==
  (\E i \in 1..lineno : ExportWithoutEq(script[i])) =>
    /\ pc = "error"
    /\ result = NoResult

----------------------------------------------------------------------------
(* Claims on resolution, checked under SpecResolve *)

IsCli(c) == c.fn \in {"get_completion_cli", "get_embedding_cli"}
IsParams(c) == c.fn = "openai_params_from_config"
IsFromBash(c) == c.fn = "openai_config_from_bash"

Has(d, k) == d # None /\ k \in Keys(d)

\* the OPENAI_ name the translation table gives for a canonical name
ConfigKeyOf(k) ==
  config_mapping[CHOOSE i \in 1..Len(config_mapping) : config_mapping[i].param_key = k].config_key

\* out holds under k the value `first` holds under fk if it holds one, else
\* the value `second` holds under sk if it holds one, else no value
Precedence(out, k, first, fk, second, sk) ==
  IF Has(first, fk) THEN Has(out, k) /\ Get(out, k) = Get(first, fk)
  ELSE IF Has(second, sk) THEN Has(out, k) /\ Get(out, k) = Get(second, sk)
  ELSE ~Has(out, k) \/ Get(out, k) = None

\* C4 as claimed: in every call, of the CLI functions and of
\* openai_params_from_config alike, the value of a canonical key is the
\* override's (kwargs, resp. the passed-in params) before the script config's.
C4_OverridesAlwaysWin ==
  \A i \in 1..Len(calls) : \A k \in CanonicalKeys :
    LET c == calls[i] IN
    /\ IsCli(c) => Precedence(c.out, k, c.arg2, k, c.arg1, k)
    /\ IsParams(c) => Precedence(c.out, k, c.arg1, k, c.arg2, ConfigKeyOf(k))

\* C4 amended: the CLI functions give kwargs precedence over config; in
\* openai_params_from_config the config's value comes first and the passed-in
\* params' value is kept only when the config lacks the key.
C4_PrecedencePerFunction ==
  \A i \in 1..Len(calls) : \A k \in CanonicalKeys :
    LET c == calls[i] IN
    /\ IsCli(c) => Precedence(c.out, k, c.arg2, k, c.arg1, k)
    /\ IsParams(c) => Precedence(c.out, k, c.arg2, ConfigKeyOf(k), c.arg1, k)

\* C4 witness: openai_params_from_config was called with api_key in params and
\* OPENAI_API_KEY in config, and returned the config's value
C4_Witness ==
  \E i \in 1..Len(calls) :
    /\ IsParams(calls[i])
    /\ Has(calls[i].arg1, api_key)
    /\ Has(calls[i].arg2, OPENAI_API_KEY)
    /\ Get(calls[i].out, api_key) = ValC

\* C5: a call leaves the caller's config (params) object as it was passed, and
\* two calls of one function on the same arguments hand on (return) the same
\* parameter set.  (Stated as the claim has it; the code updates the dict it
\* is passed.)
C5_InputsKeptAndIdempotent ==
  /\ \A i \in 1..Len(calls) : calls[i].arg1_after = calls[i].arg1
  /\ \A i, j \in 1..Len(calls) :
       (calls[i].fn = calls[j].fn /\ ~IsFromBash(calls[i])) => calls[i].out = calls[j].out

\* C9 as claimed: every key of the script config outside the five recognized
\* ones (the reserved unset entry aside) is in the resolved set with its value.
C9_UnrecognizedPassThrough ==
  \A i \in 1..Len(calls) :
    LET c == calls[i] IN
    /\ (IsFromBash(c) /\ c.out # NoResult) =>
         \A K \in Keys(bash_to_dict(c.arg1.val)) \ (RecognizedKeys \cup {UNSET}) :
           Has(c.out, K) /\ Get(c.out, K) = Get(bash_to_dict(c.arg1.val), K)
    /\ (IsParams(c) /\ Truthy(c.arg2)) =>
         \A K \in Keys(c.arg2) \ (RecognizedKeys \cup {UNSET}) :
           Has(c.out, K) /\ Get(c.out, K) = Get(c.arg2, K)

\* C9 amended: only the five recognized keys of the script config reach the
\* resolved set, each under its canonical name with its value; every other
\* key of the config is left out.
C9_OnlyRecognizedTranslated ==
  \A i \in 1..Len(calls) :
    LET c == calls[i] IN
    /\ (IsFromBash(c) /\ c.out # NoResult) =>
         LET envs == bash_to_dict(c.arg1.val) IN
         /\ Keys(c.out) \subseteq CanonicalKeys
         /\ \A k \in CanonicalKeys :
              /\ Has(c.out, k) <=> Has(envs, ConfigKeyOf(k))
              /\ Has(c.out, k) => Get(c.out, k) = Get(envs, ConfigKeyOf(k))
    /\ IsParams(c) =>
         /\ Keys(c.out) \subseteq CanonicalKeys \cup (IF Truthy(c.arg1) THEN Keys(c.arg1) ELSE {})
         /\ \A k \in CanonicalKeys :
              (Truthy(c.arg2) /\ Has(c.arg2, ConfigKeyOf(k))) =>
                 Has(c.out, k) /\ Get(c.out, k) = Get(c.arg2, ConfigKeyOf(k))

\* C9 witness: a file exporting A and OPENAI_API_KEY resolved to api_key alone
C9_Witness ==
  \E i \in 1..Len(calls) :
    /\ IsFromBash(calls[i])
    /\ calls[i].arg1.val = << EXPORT \o SP \o KeyA \o EQ \o <<"1">>,
                          EXPORT \o SP \o OPENAI_API_KEY \o EQ \o <<"k">> >>
    /\ calls[i].out = Dict(api_key :> Str(<<"k">>))

----------------------------------------------------------------------------
(* Claims on the endpoint classes, checked under SpecEndpoint *)

Attempted == ep_args # None

\* k is missing from the params or present with no value
Absent(cfg, k) == k \notin Keys(cfg) \/ Get(cfg, k) = None

\* every parameter the variant requires is there
RequiredPresent(a) ==
  /\ a.config # None
  /\ a.name # None
  /\ ~Absent(a.config, api_key)
  /\ ~Absent(a.config, api_type)
  /\ a.cls = "AzureOpenAIEndpoint" =>
       ~Absent(a.config, api_version) /\ ~Absent(a.config, api_base)

\* C6: a construction without api_key fails on the precondition, whatever the
\* other arguments, and a construction with every required parameter does not
\* fail.  (Stated as the claim has it; no construction of either class succeeds.)
C6_ConstructionChecksApiKey ==
  Attempted =>
    LET a == ep_args.val IN
    /\ (a.config # None /\ Absent(a.config, api_key)) =>
         ep_err \in {"AssertionError", "KeyError"}
    /\ RequiredPresent(a) => (ep_err = "" /\ ep # None)

UrlGetters == {"get_completion_url", "get_chat_completion_url", "get_embedding_url"}

OperationPath(method) ==
  IF method = "get_completion_url" THEN Completions
  ELSE IF method = "get_chat_completion_url" THEN ChatCompletions
  ELSE Embeddings

\* C7: on a constructed Gateway endpoint each of the three URL getters returns
\* api_base + "/openai/deployments/" + deployment_name + "/" + operation_path
\* + "?api-version=" + api_version.  (Stated as the claim has it; the chat
\* getter cannot be called.)
C7_GatewayUrlGetters ==
  (ep # None /\ ep.val.cls = "AzureOpenAIEndpoint") =>
    \A i \in 1..Len(gets) :
      gets[i].method \in UrlGetters =>
        /\ gets[i].err = ""
        /\ gets[i].val = Str(Get(ep_args.val.config, api_base).val \o Deployments
                              \o ep_args.val.name.val \o SLASH
                              \o OperationPath(gets[i].method) \o ApiVersionQuery
                              \o Get(ep_args.val.config, api_version).val)

\* C8: a Direct endpoint built from a normalized parameter set has the URLs
\* api_base + api_version + "/" + operation_path of its own params, and the
\* headers Content-Type, Authorization: "Bearer " + api_key, and
\* OpenAI-Organization exactly when an organization is given.  (Stated as the
\* claim has it; the constructor never gets that far.)
C8_DirectUrlsAndHeaders ==
  (/\ Attempted
   /\ ep_args.val.cls = "OpenAIRESTEndpoint"
   /\ RequiredPresent(ep_args.val)
   /\ ~Absent(ep_args.val.config, api_base)
   /\ ~Absent(ep_args.val.config, api_version)) =>
    LET cfg == ep_args.val.config
        base == Get(cfg, api_base).val \o Get(cfg, api_version).val \o SLASH
        std == Dict((ContentType :> Str(ApplicationJson))
                      @@ (Authorization :> Str(Bearer \o Get(cfg, api_key).val))) IN
    /\ ep # None
    /\ ep.val.attrs["_completion_url"] = Str(base \o Completions)
    /\ ep.val.attrs["_chat_completion_url"] = Str(base \o ChatCompletions)
    /\ ep.val.attrs["_embedding_url"] = Str(base \o Embeddings)
    /\ ep.val.attrs["_headers"] =
         IF Absent(cfg, organization) THEN std
         ELSE DictSet(std, OpenAIOrganization, Get(cfg, organization))

----------------------------------------------------------------------------
(* Claims on the environment, checked under SpecEnv *)

\* the name begins with the seven characters OPENAI_
HasPrefix(n) == Len(n) >= 7 /\ \A i \in 1..7 : n[i] = OPENAI_PREFIX[i]

\* C10: the environment changes only in a clear; a scan returns exactly the
\* OPENAI_ variables with their values and leaves the environment alone; a
\* clear removes every OPENAI_ variable and keeps every other one as it was.
C10_EnvironmentFrame ==
  [][ /\ environ' # environ => env_op' = "clear"
      /\ env_op' = "scan" =>
           /\ environ' = environ
           /\ Keys(scanned') = {n \in Keys(environ) : HasPrefix(n)}
           /\ \A n \in Keys(scanned') : Get(scanned', n) = Get(environ, n)
      /\ env_op' = "clear" =>
           /\ Keys(environ') = {n \in Keys(environ) : ~HasPrefix(n)}
           /\ \A n \in Keys(environ') : Get(environ', n) = Get(environ, n) ]_vars

\* C10 witness: a scan found OPENAI_API_KEY, a clear then removed it and kept
\* the variables that only resemble the prefix
C10_Witness ==
  /\ env_op = "clear"
  /\ scanned # None
  /\ OPENAI_API_KEY \in Keys(scanned)
  /\ OPENAI_API_KEY \notin Keys(environ)
  /\ {ENV_LOWER, ENV_BARE, ENV_INNER, ENV_HOME} \subseteq Keys(environ)

====
